---- MODULE Spec2Model ----
(***************************************************************************)
(* A model of package ranger (src/ranger.go): parsing of HTTP byte-range   *)
(* specifications into sorted, merged intervals.                           *)
(*                                                                         *)
(* Go strings are modelled as sequences of one-character strings, so that  *)
(* strings.Split, strings.TrimPrefix and strconv.Atoi are computed on the  *)
(* text itself.  A Range is a record [Start, Stop].                        *)
(***************************************************************************)
EXTENDS Integers, Sequences, FiniteSets, TLC

\* Largest position of an interval handed directly to mergeRanges.
MaxPos == 3
\* Largest number of intervals handed directly to mergeRanges.
MaxIntervals == 3
\* Largest number written in a token, and largest maxLen, of a Parse call.
MaxVal == 1
\* Largest number of comma-separated tokens in all entries of a Parse call.
MaxTokens == 2

VARIABLES
    pc,        \* position of the call being modelled
    req,       \* Parse: how the caller composed ranges (entries of tokens)
    ranges,    \* Parse: argument ranges, a sequence of strings
    prefix,    \* Parse: argument prefix
    maxLen,    \* Parse: argument maxLen
    h,         \* ParseHeader: argument h
    ret,       \* Parse, ParseHeader: the []Range returned
    err,       \* Parse, ParseHeader: the error returned
    xs,        \* mergeRanges: the argument as the caller wrote it
    br,        \* mergeRanges: the caller's slice (sorted in place by the call)
    ys,        \* mergeRanges: a permutation of xs
    merged,    \* mergeRanges(xs)
    again,     \* mergeRanges(mergeRanges(xs))
    permuted   \* mergeRanges(ys)

vars == <<pc, req, ranges, prefix, maxLen, h, ret, err,
          xs, br, ys, merged, again, permuted>>

parseVars == <<req, ranges, prefix, maxLen, h, ret, err>>

mergeVars == <<xs, br, ys, merged, again, permuted>>

(***************************************************************************)
(* type Range, and its methods                                             *)
(***************************************************************************)
Range(start, stop) == [Start |-> start, Stop |-> stop]

\* overlaps with strict comparisons: touching intervals no longer overlap.
overlapsStrict(b, c) == b.Start < c.Stop /\ c.Start < b.Stop

overlaps(b, c) == b.Start <= c.Stop /\ c.Start <= b.Stop

merge(b, c) == Range(b.Start, c.Stop)

\* Less without the tie-break on Stop.
LessStartOnly(a, b) == a.Start < b.Start

Less(a, b) ==
    IF a.Start < b.Start THEN TRUE
    ELSE IF a.Start = b.Start THEN a.Stop < b.Stop
    ELSE FALSE

(***************************************************************************)
(* sort.Sort(rangeSlice(br)): the slice ordered by Less.  Less is a strict *)
(* total order on the values of Range, so every sorting algorithm yields   *)
(* the same slice; insertion is the one written here.                      *)
(***************************************************************************)
RECURSIVE InsertRange(_, _)
InsertRange(s, r) ==
    IF s = << >> THEN <<r>>
    ELSE IF Less(r, Head(s)) THEN <<r>> \o s
    ELSE <<Head(s)>> \o InsertRange(Tail(s), r)

RECURSIVE SortFrom(_, _)
SortFrom(s, acc) ==
    IF s = << >> THEN acc ELSE SortFrom(Tail(s), InsertRange(acc, Head(s)))

\* The slice left as it is, in place of sort.Sort.
NoSort(s) == s

Sort(s) == SortFrom(s, << >>)

(***************************************************************************)
(* mergeRanges: the sweep of lines 145-155, then the function itself.      *)
(***************************************************************************)
RECURSIVE Sweep(_, _, _, _)
Sweep(s, i, cur, result) ==
    IF i > Len(s) THEN Append(result, cur)
    ELSE LET b == s[i] IN
         IF overlaps(cur, b)
         THEN Sweep(s, i + 1, merge(cur, b), result)
         ELSE Sweep(s, i + 1, b, Append(result, cur))

mergeRanges(s) ==
    IF Len(s) < 2 THEN s
    ELSE LET sorted == Sort(s) IN Sweep(sorted, 2, sorted[1], << >>)

\* What the call leaves in the caller's slice: sort.Sort works in place.
SliceAfterMerge(s) == IF Len(s) < 2 THEN s ELSE Sort(s)

(***************************************************************************)
(* Strings.  strings.TrimPrefix, strings.Split (with a separator of one    *)
(* character, as both calls in Parse have) and strconv.Atoi.               *)
(***************************************************************************)
HasPrefix(s, p) == Len(s) >= Len(p) /\ SubSeq(s, 1, Len(p)) = p

\* TrimPrefix cutting Len(p) characters whether or not p is in front.
TrimPrefixAlways(s, p) == SubSeq(s, Len(p) + 1, Len(s))

TrimPrefix(s, p) == IF HasPrefix(s, p) THEN SubSeq(s, Len(p) + 1, Len(s)) ELSE s

RECURSIVE SplitFrom(_, _, _, _)
SplitFrom(s, sep, cur, acc) ==
    IF s = << >> THEN Append(acc, cur)
    ELSE IF Head(s) = sep THEN SplitFrom(Tail(s), sep, << >>, Append(acc, cur))
    ELSE SplitFrom(Tail(s), sep, Append(cur, Head(s)), acc)

Split(s, sep) == SplitFrom(s, sep, << >>, << >>)

DigitChars == <<"0", "1", "2", "3", "4", "5", "6", "7", "8", "9">>

DigitSet == {DigitChars[d] : d \in 1..Len(DigitChars)}

IsDigit(ch) == ch \in DigitSet

DigitValue(ch) == (CHOOSE d \in 1..Len(DigitChars) : DigitChars[d] = ch) - 1

RECURSIVE Digits(_, _)
Digits(s, n) ==
    IF s = << >> THEN n ELSE Digits(Tail(s), n * Len(DigitChars) + DigitValue(Head(s)))

\* The error values: nil, the sentinel Error, *strconv.NumError (which
\* carries the text that failed to parse) and the error of ParseHeader.
NoError == [kind |-> "nil", text |-> << >>]

Error == [kind |-> "invalid range", text |-> << >>]

NumError(s) == [kind |-> "NumError", text |-> s]

ContentLengthError(values) == [kind |-> "invalid content length", text |-> values]

\* strconv.Atoi: an optional sign, then one or more decimal digits.  The
\* numerals of this model stay far below the width of int, so the range
\* error of Atoi does not arise.
Atoi(s) ==
    LET signed == s # << >> /\ Head(s) \in {"+", "-"}
        body   == IF signed THEN Tail(s) ELSE s
    IN  IF body = << >> \/ \E i \in 1..Len(body) : ~IsDigit(body[i])
        THEN [n |-> 0, err |-> NumError(s)]
        ELSE [n   |-> IF signed /\ Head(s) = "-" THEN 0 - Digits(body, 0)
                      ELSE Digits(body, 0),
              err |-> NoError]

(***************************************************************************)
(* Parse.  A token's outcome is [err, rng]; the three forms are lines      *)
(* 101-109, 110-118 and 119-132.                                           *)
(***************************************************************************)
Fail(e) == [err |-> e, rng |-> Range(0, 0)]

Ok(r) == [err |-> NoError, rng |-> r]

SuffixRange(p1, mLen) ==
    LET y == Atoi(p1) IN
    IF y.err # NoError THEN Fail(y.err)
    ELSE IF y.n < 0 \/ y.n > mLen THEN Fail(Error)
    ELSE Ok(Range(mLen - y.n, mLen))

\* OpenRange without the test x > maxLen.
OpenRangeUnchecked(p0, mLen) ==
    LET x == Atoi(p0) IN
    IF x.err # NoError THEN Fail(x.err)
    ELSE IF x.n < 0 THEN Fail(Error)
    ELSE Ok(Range(x.n, mLen))

OpenRange(p0, mLen) ==
    LET x == Atoi(p0) IN
    IF x.err # NoError THEN Fail(x.err)
    ELSE IF x.n < 0 \/ x.n > mLen THEN Fail(Error)
    ELSE Ok(Range(x.n, mLen))

\* ClosedRange without the test x > y.
ClosedRangeUnordered(p0, p1, mLen) ==
    LET x == Atoi(p0)
        y == Atoi(p1)
    IN  IF x.err # NoError THEN Fail(x.err)
        ELSE IF y.err # NoError THEN Fail(y.err)
        ELSE IF x.n < 0 \/ y.n < 0 \/ x.n > mLen \/ y.n > mLen
        THEN Fail(Error)
        ELSE Ok(Range(x.n, y.n))

ClosedRange(p0, p1, mLen) ==
    LET x == Atoi(p0)
        y == Atoi(p1)
    IN  IF x.err # NoError THEN Fail(x.err)
        ELSE IF y.err # NoError THEN Fail(y.err)
        ELSE IF x.n < 0 \/ y.n < 0 \/ x.n > mLen \/ y.n > mLen \/ x.n > y.n
        THEN Fail(Error)
        ELSE Ok(Range(x.n, y.n))

ParseToken(r, mLen) ==
    LET parts == Split(r, "-") IN
    IF Len(parts) # 2 THEN Fail(Error)
    ELSE IF parts[1] = << >> THEN SuffixRange(parts[2], mLen)
    ELSE IF parts[2] = << >> THEN OpenRange(parts[1], mLen)
    ELSE ClosedRange(parts[1], parts[2], mLen)

\* The inner loop going on after a failing token, and returning the error
\* of the last one that fails.
RECURSIVE ParseTokensLastError(_, _, _)
ParseTokensLastError(toks, mLen, result) ==
    IF toks = << >> THEN [err |-> NoError, result |-> result]
    ELSE LET t    == ParseToken(Head(toks), mLen)
             rest == ParseTokensLastError(Tail(toks), mLen, result)
         IN  IF t.err = NoError
             THEN ParseTokensLastError(Tail(toks), mLen, Append(result, t.rng))
             ELSE IF rest.err # NoError THEN rest
             ELSE [err |-> t.err, result |-> result]

\* The inner loop (lines 96-133): [err, result] after the tokens toks.
RECURSIVE ParseTokens(_, _, _)
ParseTokens(toks, mLen, result) ==
    IF toks = << >> THEN [err |-> NoError, result |-> result]
    ELSE LET t == ParseToken(Head(toks), mLen) IN
         IF t.err # NoError THEN [err |-> t.err, result |-> result]
         ELSE ParseTokens(Tail(toks), mLen, Append(result, t.rng))

\* The outer loop (lines 93-134).
RECURSIVE ParseEntries(_, _, _, _)
ParseEntries(rs, pre, mLen, result) ==
    IF rs = << >> THEN [err |-> NoError, result |-> result]
    ELSE LET r    == TrimPrefix(Head(rs), pre)
             done == ParseTokens(Split(r, ","), mLen, result)
         IN  IF done.err # NoError THEN done
             ELSE ParseEntries(Tail(rs), pre, mLen, done.result)

\* A returned []Range: nil, or a slice with its elements.
NilSlice == [isNil |-> TRUE, elems |-> << >>]

Slice(elems) == [isNil |-> FALSE, elems |-> elems]

Parse(rs, pre, mLen) ==
    LET parsed == ParseEntries(rs, pre, mLen, << >>) IN
    IF parsed.err # NoError THEN [ret |-> NilSlice, err |-> parsed.err]
    ELSE [ret |-> Slice(mergeRanges(parsed.result)), err |-> NoError]

BytesPrefix == <<"b", "y", "t", "e", "s", "=">>

\* http.Header: h[key] is the slice of the key's values (nil when the key is
\* absent), h.Get(key) the first of them, or "".
Get(values) == IF values = << >> THEN << >> ELSE values[1]

ParseHeader(hdr) ==
    LET length == Atoi(Get(hdr.ContentLength)) IN
    IF length.err # NoError
    THEN [ret |-> NilSlice, err |-> ContentLengthError(hdr.ContentLength)]
    ELSE Parse(hdr.Range, BytesPrefix, length.n)

(***************************************************************************)
(* Calls of mergeRanges on intervals with Start <= Stop.                   *)
(***************************************************************************)
ValidRanges ==
    {r \in {Range(a, b) : a \in 0..MaxPos, b \in 0..MaxPos} : r.Start <= r.Stop}

NoRequest == [prefixed |-> FALSE, entries |-> << >>]

NoHeader == [ContentLength |-> << >>, Range |-> << >>]

Permute(s, p) == [i \in 1..Len(s) |-> s[p[i]]]

Perms(n) == {p \in [1..n -> 1..n] : \A i, j \in 1..n : p[i] = p[j] => i = j}

InitMerge ==
    /\ pc = "start"
    /\ xs \in UNION {[1..n -> ValidRanges] : n \in 0..MaxIntervals}
    /\ br = xs
    /\ ys = << >>
    /\ merged = << >>
    /\ again = << >>
    /\ permuted = << >>
    /\ req = NoRequest
    /\ ranges = << >>
    /\ prefix = << >>
    /\ maxLen = 0
    /\ h = NoHeader
    /\ ret = NilSlice
    /\ err = NoError

Merge ==
    /\ pc = "start"
    /\ merged' = mergeRanges(br)
    /\ br' = SliceAfterMerge(br)
    /\ pc' = "merged"
    /\ UNCHANGED <<xs, ys, again, permuted, parseVars>>

MergeAgain ==
    /\ pc = "merged"
    /\ again' = mergeRanges(merged)
    /\ pc' = "again"
    /\ UNCHANGED <<xs, br, ys, merged, permuted, parseVars>>

MergePermuted ==
    /\ pc = "again"
    /\ \E p \in Perms(Len(xs)) :
          /\ ys' = Permute(xs, p)
          /\ permuted' = mergeRanges(Permute(xs, p))
    /\ pc' = "done"
    /\ UNCHANGED <<xs, br, merged, again, parseVars>>

NextMerge == Merge \/ MergeAgain \/ MergePermuted

SpecMerge == InitMerge /\ [][NextMerge]_vars

(***************************************************************************)
(* Calls of Parse.  The caller composes ranges from tokens: a token is two *)
(* fields around a dash, each a number, empty or not a numeral, or it has  *)
(* no dash, two dashes or no text at all; an entry is one or more tokens   *)
(* joined by commas, with or without the prefix in front.                  *)
(***************************************************************************)
RECURSIVE Itoa(_)
Itoa(n) ==
    IF n < Len(DigitChars) THEN <<DigitChars[n + 1]>>
    ELSE Itoa(n \div Len(DigitChars)) \o <<DigitChars[(n % Len(DigitChars)) + 1]>>

Num(n) == <<"num", n>>

Empty == <<"empty", 0>>

Junk == <<"junk", 0>>

Numbers == {Num(n) : n \in 0..MaxVal}

\* The tokens whose fields are numbers or empty; those with a field that is
\* no numeral ("-", "-x", "x-", "x-M", "M-x"); those of another shape.
NumberTokens ==
    {[form |-> "fields", a |-> f, b |-> g] : f \in Numbers \cup {Empty}, g \in Numbers \cup {Empty}}
    \ {[form |-> "fields", a |-> Empty, b |-> Empty]}

JunkTokens ==
    {[form |-> "fields", a |-> Empty, b |-> Empty],
     [form |-> "fields", a |-> Empty, b |-> Junk],
     [form |-> "fields", a |-> Junk, b |-> Empty],
     [form |-> "fields", a |-> Junk, b |-> Num(MaxVal)],
     [form |-> "fields", a |-> Num(MaxVal), b |-> Junk]}

ShapeTokens == {[form |-> s, a |-> Empty, b |-> Empty] : s \in {"blank", "twodash"}}

Tokens == NumberTokens \cup JunkTokens \cup ShapeTokens

RenderField(f) ==
    IF f[1] = "num" THEN Itoa(f[2])
    ELSE IF f[1] = "junk" THEN <<"x">>
    ELSE << >>

RenderToken(t) ==
    IF t.form = "fields" THEN RenderField(t.a) \o <<"-">> \o RenderField(t.b)
    ELSE IF t.form = "twodash" THEN <<"0", "-", "1", "-", "2">>
    ELSE << >>

RECURSIVE Join(_, _)
Join(strs, sep) ==
    IF strs = << >> THEN << >>
    ELSE IF Len(strs) = 1 THEN strs[1]
    ELSE strs[1] \o <<sep>> \o Join(Tail(strs), sep)

RenderEntry(toks, prefixed) ==
    (IF prefixed THEN BytesPrefix ELSE << >>)
    \o Join([i \in 1..Len(toks) |-> RenderToken(toks[i])], ",")

RenderRanges(rq) ==
    [i \in 1..Len(rq.entries) |-> RenderEntry(rq.entries[i], rq.prefixed)]

\* The entries whose tokens are toks, in order: cut[i] says that token i
\* opens a new entry.
RECURSIVE Compose(_, _, _)
Compose(toks, cut, i) ==
    IF i > Len(toks) THEN << >>
    ELSE LET rest == Compose(toks, cut, i + 1) IN
         IF i < Len(toks) /\ ~cut[i + 1]
         THEN <<<<toks[i]>> \o Head(rest)>> \o Tail(rest)
         ELSE <<<<toks[i]>>>> \o rest

\* Every request of at most MaxTokens tokens; its entries all carry the
\* prefix, or none does.
IsRequest(rq) ==
    \E n \in 0..MaxTokens :
       \E toks \in [1..n -> Tokens], cut \in [1..n -> BOOLEAN], pre \in BOOLEAN :
          /\ n > 0 => cut[1]
          /\ rq = [prefixed |-> pre, entries |-> Compose(toks, cut, 1)]

InitParse ==
    /\ pc = "call"
    /\ IsRequest(req)
    /\ ranges = RenderRanges(req)
    /\ prefix = BytesPrefix
    /\ maxLen \in -1..MaxVal
    /\ h = NoHeader
    /\ ret = NilSlice
    /\ err = NoError
    /\ xs = << >>
    /\ br = << >>
    /\ ys = << >>
    /\ merged = << >>
    /\ again = << >>
    /\ permuted = << >>

CallParse ==
    /\ pc = "call"
    /\ LET out == Parse(ranges, prefix, maxLen) IN
          /\ ret' = out.ret
          /\ err' = out.err
    /\ pc' = "return"
    /\ UNCHANGED <<req, ranges, prefix, maxLen, h, mergeVars>>

NextParse == CallParse

SpecParse == InitParse /\ [][NextParse]_vars

(***************************************************************************)
(* Calls of ParseHeader.  Content-Length is absent, or has one or two      *)
(* values; Range is absent or holds the entries of a request.              *)
(***************************************************************************)
ContentLengths ==
    {<< >>, << << >> >>, <<<<"x">>>>, <<<<"-", "1">>>>, <<<<"+", "1">>>>}
    \cup {<<Itoa(n)>> : n \in 0..MaxVal}
    \cup {<<Itoa(n), <<"x">>>> : n \in 0..MaxVal}

InitHeader ==
    /\ pc = "call"
    /\ IsRequest(req)
    /\ h \in {[ContentLength |-> c, Range |-> RenderRanges(req)] : c \in ContentLengths}
    /\ ranges = << >>
    /\ prefix = << >>
    /\ maxLen = 0
    /\ ret = NilSlice
    /\ err = NoError
    /\ xs = << >>
    /\ br = << >>
    /\ ys = << >>
    /\ merged = << >>
    /\ again = << >>
    /\ permuted = << >>

\* ranges, prefix and maxLen are the arguments ParseHeader hands to Parse,
\* when it gets that far.
CallParseHeader ==
    /\ pc = "call"
    /\ LET out    == ParseHeader(h)
           length == Atoi(Get(h.ContentLength))
       IN  /\ ret' = out.ret
           /\ err' = out.err
           /\ IF length.err # NoError
              THEN UNCHANGED <<ranges, prefix, maxLen>>
              ELSE /\ ranges' = h.Range
                   /\ prefix' = BytesPrefix
                   /\ maxLen' = length.n
    /\ pc' = "return"
    /\ UNCHANGED <<req, h, mergeVars>>

NextHeader == CallParseHeader

SpecHeader == InitHeader /\ [][NextHeader]_vars

(***************************************************************************)
(* What section 4.1 of the specification says of a token, stated on the    *)
(* token as the caller composed it (not on its text).                      *)
(***************************************************************************)
RECURSIVE Flatten(_)
Flatten(entries) ==
    IF entries = << >> THEN << >> ELSE Head(entries) \o Flatten(Tail(entries))

ReqTokens == Flatten(req.entries)

IsNum(f) == f[1] = "num"

\* "shape": not two parts around one dash; "numeral": a field the parser
\* converts is no numeral; "bounds": a bound or the order is violated.
TokenClass(t, mLen) ==
    IF t.form # "fields" THEN "shape"
    ELSE IF t.a = Empty
    THEN IF ~IsNum(t.b) THEN "numeral"
         ELSE IF t.b[2] > mLen THEN "bounds" ELSE "ok"
    ELSE IF t.b = Empty
    THEN IF ~IsNum(t.a) THEN "numeral"
         ELSE IF t.a[2] > mLen THEN "bounds" ELSE "ok"
    ELSE IF ~IsNum(t.a) \/ ~IsNum(t.b) THEN "numeral"
    ELSE IF t.a[2] > mLen \/ t.b[2] > mLen \/ t.a[2] > t.b[2] THEN "bounds"
    ELSE "ok"

\* The field whose conversion fails, of a token of class "numeral".
BadField(t) ==
    IF t.a = Empty THEN t.b
    ELSE IF t.b = Empty THEN t.a
    ELSE IF ~IsNum(t.a) THEN t.a
    ELSE t.b

ExpectedError(t, mLen) ==
    IF TokenClass(t, mLen) = "numeral" THEN NumError(RenderField(BadField(t)))
    ELSE Error

ExpectedInterval(t, mLen) ==
    IF t.a = Empty THEN Range(mLen - t.b[2], mLen)
    ELSE IF t.b = Empty THEN Range(t.a[2], mLen)
    ELSE Range(t.a[2], t.b[2])

Failing == {i \in 1..Len(ReqTokens) : TokenClass(ReqTokens[i], maxLen) # "ok"}

FirstOf(S) == CHOOSE i \in S : \A j \in S : i <= j

\* A token with a start or stop outside [0, maxLen], or closed with
\* start > stop.
OutOfBounds(t, mLen) ==
    /\ t.form = "fields"
    /\ \/ IsNum(t.a) /\ t.a[2] > mLen
       \/ IsNum(t.b) /\ t.b[2] > mLen
       \/ IsNum(t.a) /\ IsNum(t.b) /\ t.a[2] > t.b[2]

Violating == {i \in 1..Len(ReqTokens) : OutOfBounds(ReqTokens[i], maxLen)}

(***************************************************************************)
(* Properties of Parse.                                                    *)
(***************************************************************************)
\* C2: when Parse succeeds, every interval of the result has Start <= Stop
\* and neighbouring intervals a, b of the result satisfy a.Stop < b.Start.
C2_SortedDisjoint ==
    (pc = "return" /\ err = NoError) =>
        /\ \A i \in 1..Len(ret.elems) : ret.elems[i].Start <= ret.elems[i].Stop
        /\ \A i \in 1..(Len(ret.elems) - 1) : ret.elems[i].Stop < ret.elems[i + 1].Start

C2_Witness ==
    /\ pc = "return"
    /\ err = NoError
    /\ Len(ReqTokens) = 2
    /\ Len(ret.elems) = 2
    /\ ret.elems[1] = ExpectedInterval(ReqTokens[2], maxLen)

\* C3: when Parse succeeds, every interval of the result satisfies
\* 0 <= Start <= Stop <= maxLen.
C3_WithinBounds ==
    (pc = "return" /\ err = NoError) =>
        \A i \in 1..Len(ret.elems) :
           /\ 0 <= ret.elems[i].Start
           /\ ret.elems[i].Start <= ret.elems[i].Stop
           /\ ret.elems[i].Stop <= maxLen

C3_Witness ==
    /\ pc = "return"
    /\ err = NoError
    /\ Len(ReqTokens) = 2
    /\ ReqTokens[1].a = Empty
    /\ ReqTokens[2].b = Empty
    /\ Len(ret.elems) = 1
    /\ ret.elems[1] = Range(0, maxLen)
    /\ maxLen > 0

C6_NegativeMaxLen ==
    (pc = "return" /\ maxLen < 0) => err = Error

BadContentLength ==
    \/ h.ContentLength = << >>
    \/ h.ContentLength[1] \in {<< >>, <<"x">>}

\* C7: ParseHeader returns the sentinel Error when Content-Length is absent
\* or does not parse, and when Range is absent.
C7_HeaderSentinel ==
    (pc = "return" /\ (BadContentLength \/ h.Range = << >>)) => err = Error

(***************************************************************************)
(* Properties of mergeRanges.                                              *)
(***************************************************************************)
Covered(s, p) == \E i \in 1..Len(s) : s[i].Start <= p /\ p <= s[i].Stop

\* C1: mergeRanges(xs) covers exactly the positions that xs covers: a
\* position lies in some output interval iff it lies in some input interval.
C1_CoverPreserved ==
    pc # "start" => \A p \in 0..MaxPos : Covered(merged, p) <=> Covered(xs, p)

\* C8: mergeRanges is idempotent: merging the output of a merge returns that
\* output unchanged.
C8_Idempotent ==
    pc \in {"again", "done"} => again = merged

C8_Witness ==
    /\ pc = "again"
    /\ Len(merged) >= 2
    /\ Len(merged) < Len(xs)
    /\ xs # Sort(xs)

\* C9: mergeRanges is permutation-invariant: every permutation ys of xs
\* merges to the same sequence as xs, element for element.
C9_PermutationInvariant ==
    pc = "done" => permuted = merged

C9_Witness ==
    /\ pc = "done"
    /\ ys # xs
    /\ Len(merged) >= 2
    /\ Len(merged) < Len(xs)

====
